---- MODULE Spec2Model ----
(***************************************************************************)
(* A model of the chunk-storage core of hub (deeplake):                    *)
(*   - hub/core/chunk/sample_compressed_chunk.py  SampleCompressedChunk    *)
(*   - hub/util/transform.py    transform_sample, merge_chunks,            *)
(*                              merge_tensor_metas, merge_chunk_id_encoders*)
(*   - hub/core/linked_chunk_engine.py            LinkedChunkEngine        *)
(*   - hub/util/chunks.py       chunk identifiers and tile-chunk helpers   *)
(* Each component has its own variables and its own specification; a       *)
(* specification keeps the variables of the other components at rest.      *)
(***************************************************************************)
EXTENDS Integers, Sequences, FiniteSets, TLC

(***************************************************************************)
(* Bounds of the model.                                                    *)
(***************************************************************************)
\* longest list of samples a caller hands to extend_if_has_space
MaxBatch == 2
\* most workers a merge combines
MaxWorkers == 2
\* largest last-sample index in a worker's chunk-id encoder
MaxLastIndex == 2
\* most index entries in a worker's index meta
MaxEntries == 3
\* hub.constants.DEFAULT_MAX_CHUNK_SIZE, scaled down
DEFAULT_MAX_CHUNK_SIZE == 8
\* most mappings and numbers in what a function of a pipeline returns
MaxLeaves == 2
\* longest pipeline
MaxStages == 2
\* largest max_chunk_size a tensor is configured with
MaxChunkSize == 4
\* longest list of samples handed to a linked tensor
MaxLinkBatch == 2
\* most samples a creds encoder holds
MaxCreds == 2
\* most CredsEncoder objects an engine creates or loads
MaxObjects == 3
\* most frames in a video
MaxFrames == 2
\* most bytes in a chunk that sample_from_index_entry reads
MaxChunkLen == 2
\* most chunks an index entry names
MaxChunkNames == 3
\* hexadecimal digits of the chunk-id type (ENCODING_DTYPE), scaled down
IdHexDigits == 2

VARIABLES
    \* ---- SampleCompressedChunk ----
    tensor,      \* the tensor's configuration: compression, dtype, is_text_like, max_chunk_size
    chunks,      \* the chunks of the tensor, each with its buffer and its two headers
    incoming,    \* the caller's list of samples, which extend_if_has_space rewrites in place
    last,        \* the last chunk operation: its kind, its chunk, and what it returned or raised
    \* ---- merge_chunk_id_encoders ----
    cie_dest,    \* ds_out's chunk_id_encoder: its _encoded_ids (none, or rows <<chunk id, last index>>)
    cie_workers, \* the workers' chunk_id_encoders, whose rows the merge shifts in place
    cie_offset,  \* the local offset
    cie_pc,      \* the position of the merge: the next worker, then the store, then done
    cie_cache,   \* what the merge stored under the chunk-id-encoder key
    cie_in,      \* the destination and the workers as they were when the merge began
    \* ---- merge_tensor_metas ----
    tm_dest,     \* ds_out's tensor meta: dtype, length, min_shape, max_shape
    tm_workers,  \* the workers' tensor metas
    tm_pc,       \* the position of the merge: the next worker, then the store, then done
    tm_err,      \* the assertion that failed, if one did
    tm_cache,    \* what the merge stored under the tensor-meta key
    tm_in,       \* the destination meta as it was when the merge began
    \* ---- merge_chunks ----
    mc_storage,  \* the storage provider: the bytes under each chunk key
    mc_meta,     \* current_meta["entries"]: the index entries of the worker
    mc_args,     \* the arguments of merge_chunks
    mc_pc,       \* 1 before the call of merge_chunks, 2 after it
    mc_in,       \* the storage and the entries as they were before the call
    \* ---- transform_sample ----
    ts_result,   \* result
    ts_raw,      \* what the last function returned (the list of what it returned for each item)
    ts_index,    \* the functions of the pipeline applied so far
    ts_len,      \* len(pipeline)
    ts_outcome,  \* "running", "returned", or the error raised
    \* ---- LinkedChunkEngine ----
    lce_commit_id,     \* version_state["commit_id"]
    lce_read_only,     \* whether meta_cache refuses writes (ReadOnlyModeError)
    lce_meta_cache,    \* the creds encoder that meta_cache holds under the key of each commit id
    lce_creds_encoder, \* _creds_encoder: "None", "cached" or "own"
    lce_creds_encoder_commit_id,  \* _creds_encoder_commit_id
    lce_encoder_id,    \* which object _creds_encoder is: 0 for None, else the number of the object
    lce_objects,       \* how many CredsEncoder objects the engine has created or loaded
    lce_call,          \* the last call: its name, the samples it was given, what it raised
    lce_video,         \* what the last call returned, when it was get_video_sample
    \* ---- tile chunks ----
    tile_call,    \* the last call: its name and its arguments
    tile_stdout,  \* what the call printed
    tile_outcome, \* how the call ended: "returned", or the error it raised
    tile_result,  \* what chunk_name_from_id and chunk_id_from_name returned
    \* ---- sample_from_index_entry ----
    rd_storage,   \* storage: the bytes under each chunk key
    rd_entry,     \* index_entry
    rd_dtype,     \* dtype
    rd_pc,        \* 1 before the call, 2 after it
    rd_out        \* the chunks the call read, the bytes it decoded, what it returned or raised

chunkVars == <<tensor, chunks, incoming, last>>

cieVars == <<cie_dest, cie_workers, cie_offset, cie_pc, cie_cache, cie_in>>

tmVars == <<tm_dest, tm_workers, tm_pc, tm_err, tm_cache, tm_in>>

mcVars == <<mc_storage, mc_meta, mc_args, mc_pc, mc_in>>

tsVars == <<ts_result, ts_raw, ts_index, ts_len, ts_outcome>>

lceVars == <<lce_commit_id, lce_read_only, lce_meta_cache, lce_creds_encoder,
             lce_creds_encoder_commit_id, lce_encoder_id, lce_objects, lce_call,
             lce_video>>

tileVars == <<tile_call, tile_stdout, tile_outcome, tile_result>>

rdVars == <<rd_storage, rd_entry, rd_dtype, rd_pc, rd_out>>

vars == <<chunkVars, cieVars, tmVars, mcVars, tsVars, lceVars, tileVars, rdVars>>

(***************************************************************************)
(* Helpers on sequences.                                                   *)
(***************************************************************************)
RECURSIVE Prod(_)
Prod(s) == IF s = <<>> THEN 1 ELSE Head(s) * Prod(Tail(s))

RECURSIVE Flatten(_)
Flatten(ss) == IF ss = <<>> THEN <<>> ELSE Head(ss) \o Flatten(Tail(ss))

SeqsUpTo(S, n) == UNION {[1..k -> S] : k \in 0..n}

(***************************************************************************)
(* SampleCompressedChunk: values, codecs and the Sample wrapper.           *)
(*                                                                         *)
(* An array is a dtype, a shape and its elements; bytes are sequences of   *)
(* numbers 0..255.  A sample handed to a chunk is one record of            *)
(*   kind  "ndarray" (a raw array), "Sample" (a hub Sample) or "str",      *)
(*   dt, shape, vals    the array (a Sample built from a buffer has none:  *)
(*                      dt = "none", vals = <<>>),                         *)
(*   buf, comp          the encoded bytes and their compression, for a     *)
(*                      Sample built from a buffer (comp = "none" else).   *)
(***************************************************************************)
Dtypes == {"uint8", "uint16"}

ItemSize(dt) == IF dt = "uint16" THEN 2 ELSE 1

\* hub.compression: the byte-level codecs store no dtype, the others do
BYTE_COMPRESSIONS == {"lz4"}

Compressions == {"lz4", "png"}

\* ndarray.astype: the elements wrap to the width of the new dtype
Cast(arr, dt) ==
    [dt |-> dt, shape |-> arr.shape,
     vals |-> [i \in 1..Len(arr.vals) |-> arr.vals[i] % (2 ^ (8 * ItemSize(dt)))]]

\* intelligent_cast: the sample as an array of the tensor's dtype
intelligent_cast(arr, dt) == Cast(arr, dt)

\* ndarray.tobytes: little-endian, ItemSize(dt) bytes an element
ToBytes(arr) ==
    Flatten([i \in 1..Len(arr.vals) |->
                IF arr.dt = "uint16"
                THEN <<arr.vals[i] % 256, arr.vals[i] \div 256>>
                ELSE <<arr.vals[i] % 256>>])

\* np.frombuffer(b, dtype): defined when len(b) is a multiple of the item size
ValsOfBytes(b, dt) ==
    IF dt = "uint16"
    THEN [i \in 1..(Len(b) \div 2) |-> b[2 * i - 1] + 256 * b[2 * i]]
    ELSE b

RECURSIVE RunLen(_)
RunLen(b) ==
    IF Len(b) <= 1 THEN Len(b)
    ELSE IF b[2] = b[1] THEN 1 + RunLen(Tail(b)) ELSE 1

\* The byte-level codec (lz4), an external collaborator, as run-length coding:
\* deterministic, invertible, and it changes both the length and the content.
RECURSIVE compress_bytes(_)
compress_bytes(b) ==
    IF b = <<>> THEN <<>>
    ELSE LET n == RunLen(b)
         IN  <<n, b[1]>> \o compress_bytes(SubSeq(b, n + 1, Len(b)))

RECURSIVE decompress_bytes(_)
decompress_bytes(c) ==
    IF Len(c) < 2 THEN <<>>
    ELSE [i \in 1..c[1] |-> c[2]] \o decompress_bytes(SubSeq(c, 3, Len(c)))

DtypeCode(dt) == IF dt = "uint16" THEN 16 ELSE 8

DtypeOfCode(n) == IF n = 16 THEN "uint16" ELSE "uint8"

\* compress_array: a byte-level codec compresses the array's bytes; a dtype-aware
\* codec (png) keeps the dtype in a header in front of the pixel data.
compress_array(arr, compression) ==
    IF compression \in BYTE_COMPRESSIONS
    THEN compress_bytes(ToBytes(arr))
    ELSE <<DtypeCode(arr.dt)>> \o ToBytes(arr)

\* decompress_array(buffer, shape, dtype, compression): a byte-level codec yields
\* the bytes as an array of the dtype it is given, a dtype-aware one reads the
\* dtype from the header.
decompress_array(buffer, shape, dtype, compression) ==
    IF compression \in BYTE_COMPRESSIONS
    THEN [dt |-> dtype, shape |-> shape,
          vals |-> ValsOfBytes(decompress_bytes(buffer), dtype)]
    ELSE [dt |-> DtypeOfCode(buffer[1]), shape |-> shape,
          vals |-> ValsOfBytes(Tail(buffer), DtypeOfCode(buffer[1]))]

\* A raw np.ndarray.
NdArray(arr) ==
    [kind |-> "ndarray", dt |-> arr.dt, shape |-> arr.shape, vals |-> arr.vals,
     buf |-> <<>>, comp |-> "none"]

\* Sample(array=arr)
SampleOfArray(arr) ==
    [kind |-> "Sample", dt |-> arr.dt, shape |-> arr.shape, vals |-> arr.vals,
     buf |-> <<>>, comp |-> "none"]

\* Sample(buffer=b, compression=c, shape=shape)
SampleOfBuffer(b, c, shape) ==
    [kind |-> "Sample", dt |-> "none", shape |-> shape, vals |-> <<>>,
     buf |-> b, comp |-> c]

\* A text value: vals holds its code points.
Text(cps) ==
    [kind |-> "str", dt |-> "none", shape |-> <<>>, vals |-> cps,
     buf |-> <<>>, comp |-> "none"]

\* Sample.array: the array itself, or the buffer decoded (a byte-level codec
\* stores no dtype: its bytes are those of the tensor's dtype, line 41).
SampleArray(smp, dt) ==
    IF smp.comp = "none"
    THEN [dt |-> smp.dt, shape |-> smp.shape, vals |-> smp.vals]
    ELSE decompress_array(smp.buf, smp.shape, dt, smp.comp)

\* Sample.compressed_bytes(compression): "if incoming compression matches, use
\* unprocessed bytes; if incoming compression doesn't match, decompress then
\* compress bytes".  calls = 1 when the codec was run.
SampleCompressedBytes(smp, compression, dt) ==
    IF smp.comp = compression
    THEN [bytes |-> smp.buf, calls |-> 0]
    ELSE [bytes |-> compress_array(SampleArray(smp, dt), compression), calls |-> 1]

\* text_to_bytes: UTF-8 of a text, with shape (1,); anything but text is a TypeError.
RECURSIVE Utf8(_)
Utf8(cps) ==
    IF cps = <<>> THEN <<>>
    ELSE (IF Head(cps) < 128 THEN <<Head(cps)>>
          ELSE <<192 + (Head(cps) \div 64), 128 + (Head(cps) % 64)>>) \o Utf8(Tail(cps))

text_to_bytes(smp) ==
    IF smp.kind = "str"
    THEN [err |-> "none", bytes |-> Utf8(smp.vals), shape |-> <<1>>]
    ELSE [err |-> "TypeError", bytes |-> <<>>, shape |-> <<>>]

\* serialize_numpy_and_base_types: cast to the tensor's dtype, then compress.
serialize_numpy_and_base_types(smp, dt, compression) ==
    LET out == intelligent_cast([dt |-> smp.dt, shape |-> smp.shape, vals |-> smp.vals], dt)
    IN  [bytes |-> compress_array(out, compression), shape |-> out.shape]

(***************************************************************************)
(* SampleCompressedChunk: the chunk and its operations.                    *)
(***************************************************************************)
\* SampleCompressedChunk.serialize_sample: the bytes and the shape to record;
\* calls counts the runs of the codec's compression.
serialize_sample(smp, t) ==
    LET r == IF t.is_text_like
             THEN LET tb == text_to_bytes(smp)
                  IN  [err |-> tb.err,
                       bytes |-> IF tb.err = "none" THEN compress_bytes(tb.bytes) ELSE <<>>,
                       shape |-> tb.shape,
                       calls |-> IF tb.err = "none" THEN 1 ELSE 0]
             ELSE IF smp.kind = "Sample"
             THEN LET s2 == IF t.compression \in BYTE_COMPRESSIONS
                            THEN SampleOfArray(intelligent_cast(SampleArray(smp, t.dtype), t.dtype))
                            ELSE smp
                      cb == SampleCompressedBytes(s2, t.compression, t.dtype)
                  IN  [err |-> "none", bytes |-> cb.bytes, shape |-> smp.shape,
                       calls |-> cb.calls]
             ELSE LET sn == serialize_numpy_and_base_types(smp, t.dtype, t.compression)
                  IN  [err |-> "none", bytes |-> sn.bytes, shape |-> sn.shape, calls |-> 1]
    IN  [r EXCEPT !.shape = IF Len(r.shape) = 0 THEN <<1>> ELSE r.shape]

\* BaseChunk.num_data_bytes
num_data_bytes(ch) == Len(ch.data_bytes)

\* BaseChunk.register_sample_to_headers: the next byte range and the shape
register_sample_to_headers(ch, nbytes, shape) ==
    LET n  == Len(ch.byte_positions)
        sb == IF n = 0 THEN 0 ELSE ch.byte_positions[n][2]
    IN  [ch EXCEPT !.byte_positions = Append(@, <<sb, sb + nbytes>>),
                   !.shapes_encoder = Append(@, shape)]

\* AcceptSample with the byte range registered from the size of the whole buffer
\* instead of the size of the sample.
AcceptSampleWholeBuffer(ch, bytes, shape) ==
    register_sample_to_headers(
        [ch EXCEPT !.data_bytes = @ \o bytes, !.shapes = Append(@, shape)],
        Len(ch.data_bytes) + Len(bytes), shape)

\* Lines 69-71 of extend_if_has_space: the sample is accepted.
AcceptSample(ch, bytes, shape) ==
    register_sample_to_headers(
        [ch EXCEPT !.data_bytes = @ \o bytes, !.shapes = Append(@, shape)],
        Len(bytes), shape)

\* NoSpace without the size of the incoming sample.
NoSpaceIgnoringSample(ch, nbytes, t) == num_data_bytes(ch) > t.max_chunk_size

\* Line 66 of extend_if_has_space: the sample does not fit.
NoSpace(ch, nbytes, t) == num_data_bytes(ch) + nbytes > t.max_chunk_size

\* The loop of extend_if_has_space from the i-th sample of the list (1-based) on:
\* the chunk, the caller's list, the value returned (or the error raised) and the
\* positions of the list at which the codec compressed.
RECURSIVE extend_loop(_, _, _, _, _)
extend_loop(ch, samples, i, t, compressed) ==
    IF i > Len(samples)
    THEN [chunk |-> ch, samples |-> samples, err |-> "none", ret |-> Len(samples),
          compressed |-> compressed]
    ELSE LET s   == serialize_sample(samples[i], t)
             new == [samples EXCEPT ![i] = SampleOfBuffer(s.bytes, t.compression, s.shape)]
             cmp == IF s.calls > 0 THEN compressed \cup {i} ELSE compressed
         IN  IF s.err # "none"
             THEN [chunk |-> ch, samples |-> samples, err |-> s.err, ret |-> 0,
                   compressed |-> compressed]
             ELSE IF NoSpace(ch, Len(s.bytes), t)
             THEN [chunk |-> ch, samples |-> new, err |-> "none", ret |-> i - 1,
                   compressed |-> cmp]
             ELSE extend_loop(AcceptSample(ch, s.bytes, s.shape), new, i + 1, t, cmp)

\* SampleCompressedChunk.extend_if_has_space
extend_if_has_space(ch, samples, t) == extend_loop(ch, samples, 1, t, {})

\* Line 91 of read_sample: np.frombuffer(buffer, dtype).reshape(shape)
FromBuffer(buffer, dt, shape) ==
    IF Len(buffer) = ItemSize(dt) * Prod(shape)
    THEN [err |-> "none", kind |-> "ndarray", dt |-> dt, shape |-> shape,
          vals |-> ValsOfBytes(buffer, dt)]
    ELSE [err |-> "ValueError", kind |-> "none", dt |-> "none", shape |-> <<>>,
          vals |-> <<>>]

\* Lines 86-90 of read_sample: the sample decompressed, and cast to the tensor's dtype
DecodedSample(buffer, shape, t) ==
    LET smp == decompress_array(buffer, shape, t.dtype, t.compression)
    IN  IF smp.dt # t.dtype THEN Cast(smp, t.dtype) ELSE smp

\* bytes_to_text: the inverse of text_to_bytes
RECURSIVE bytes_to_text(_)
bytes_to_text(b) ==
    IF b = <<>> THEN <<>>
    ELSE IF Head(b) < 128 THEN <<Head(b)>> \o bytes_to_text(Tail(b))
    ELSE <<(Head(b) - 192) * 64 + (b[2] - 128)>> \o bytes_to_text(Tail(Tail(b)))

\* SampleCompressedChunk.read_sample (cast = True)
read_sample(ch, local_sample_index, t) ==
    LET sb     == ch.byte_positions[local_sample_index][1]
        eb     == ch.byte_positions[local_sample_index][2]
        buffer == SubSeq(ch.data_bytes, sb + 1, eb)
        shape  == ch.shapes_encoder[local_sample_index]
        sample == DecodedSample(buffer, shape, t)
    IN  IF t.is_text_like
        THEN [err |-> "none", kind |-> "str", dt |-> "none", shape |-> <<>>,
              vals |-> bytes_to_text(decompress_bytes(buffer))]
        ELSE FromBuffer(buffer, t.dtype, shape)

(***************************************************************************)
(* SampleCompressedChunk: the state machine.  A writer fills the chunks of *)
(* one tensor from a list of samples; readers read the samples back.       *)
(***************************************************************************)
ChunkIds == {"c1", "c2"}

\* the arrays samples are made of: a scalar, and arrays of either dtype
Scalar8 == [dt |-> "uint8", shape |-> <<>>, vals |-> <<1>>]

Pair8 == [dt |-> "uint8", shape |-> <<2>>, vals |-> <<1, 1>>]

Pair16 == [dt |-> "uint16", shape |-> <<2>>, vals |-> <<1, 2>>]

Single16 == [dt |-> "uint16", shape |-> <<1>>, vals |-> <<2>>]

\* the samples a caller appends to a tensor: raw arrays, a Sample of an array and
\* a Sample read from a png file; texts for a text tensor
InputSamples(t) ==
    IF t.is_text_like
    THEN {Text(<<97>>), Text(<<233>>), Text(<<97, 97>>)}
    ELSE {NdArray(Scalar8), NdArray(Pair16), SampleOfArray(Pair8),
          SampleOfBuffer(compress_array(Single16, "png"), "png", Single16.shape)}

\* a text tensor is compressed by a byte-level codec
Tensors ==
    {t \in [compression : Compressions, dtype : Dtypes, is_text_like : BOOLEAN,
            max_chunk_size : {MaxChunkSize - 1, MaxChunkSize}] :
        t.is_text_like => (t.compression \in BYTE_COMPRESSIONS /\ t.dtype = "uint8")}

EmptyChunk == [data_bytes |-> <<>>, byte_positions |-> <<>>, shapes_encoder |-> <<>>,
               shapes |-> <<>>]

NoValue == [err |-> "none", kind |-> "none", dt |-> "none", shape |-> <<>>, vals |-> <<>>]

NoOp == [op |-> "none", chunk |-> "none", index |-> 0, err |-> "none", ret |-> 0,
         compressed |-> {}, value |-> NoValue]

ChunkIdle ==
    /\ tensor = [compression |-> "lz4", dtype |-> "uint8", is_text_like |-> FALSE,
                 max_chunk_size |-> MaxChunkSize]
    /\ chunks = <<>>
    /\ incoming = <<>>
    /\ last = <<>>

ChunkInit ==
    /\ tensor \in Tensors
    /\ chunks = [c \in ChunkIds |-> EmptyChunk]
    /\ incoming = <<>>
    /\ last = NoOp

\* The writer builds its next list of samples, the last one being used up.
NewSamples ==
    /\ incoming = <<>>
    /\ \E n \in 1..MaxBatch : \E batch \in [1..n -> InputSamples(tensor)] :
          incoming' = batch
    /\ last' = [NoOp EXCEPT !.op = "new"]
    /\ UNCHANGED <<tensor, chunks>>

\* chunk.extend_if_has_space(incoming)
ExtendIfHasSpace(c) ==
    LET r == extend_if_has_space(chunks[c], incoming, tensor)
    IN  /\ chunks' = [chunks EXCEPT ![c] = r.chunk]
        /\ incoming' = r.samples
        /\ last' = [NoOp EXCEPT !.op = "extend", !.chunk = c, !.err = r.err,
                                !.ret = r.ret, !.compressed = r.compressed]
        /\ UNCHANGED tensor

\* The writer keeps the samples the chunk did not accept, for the next chunk.
TakeRest ==
    /\ last.op = "extend"
    /\ last.err = "none"
    /\ last.ret > 0
    /\ incoming' = SubSeq(incoming, last.ret + 1, Len(incoming))
    /\ last' = [NoOp EXCEPT !.op = "rest", !.chunk = last.chunk]
    /\ UNCHANGED <<tensor, chunks>>

\* chunk.read_sample(i)
ReadSample(c) ==
    \E i \in 1..Len(chunks[c].byte_positions) :
        /\ last' = [NoOp EXCEPT !.op = "read", !.chunk = c, !.index = i,
                                !.err = read_sample(chunks[c], i, tensor).err,
                                !.value = read_sample(chunks[c], i, tensor)]
        /\ UNCHANGED <<tensor, chunks, incoming>>


(***************************************************************************)
(* SampleCompressedChunk: properties.                                      *)
(***************************************************************************)
\* the step is a call of extend_if_has_space that returned
ExtendReturned == last'.op = "extend" /\ last'.err = "none"

\* the bytes of the i-th sample of a chunk
Payload(ch, i) == SubSeq(ch.data_bytes, ch.byte_positions[i][1] + 1, ch.byte_positions[i][2])

\* C1: extend_if_has_space never accepts a sample that would push the used bytes
\* of the chunk above max_chunk_size, so no chunk ever holds more than
\* max_chunk_size bytes, and the number it returns is the number of samples the
\* call added to the byte-range header and to the shape header.
C1_Capacity ==
    [][/\ \A c \in ChunkIds : num_data_bytes(chunks'[c]) <= tensor.max_chunk_size
       /\ ExtendReturned =>
            /\ Len(chunks'[last'.chunk].byte_positions)
                 = Len(chunks[last'.chunk].byte_positions) + last'.ret
            /\ Len(chunks'[last'.chunk].shapes_encoder)
                 = Len(chunks[last'.chunk].shapes_encoder) + last'.ret]_vars

\* C1 witness: a call on a chunk that already held bytes accepted one sample and
\* rejected the next for lack of space.
C1_Witness ==
    /\ last.op = "extend" /\ last.err = "none"
    /\ last.ret = 1 /\ Len(incoming) = 2
    /\ Len(chunks[last.chunk].byte_positions) = 2
    /\ num_data_bytes(chunks[last.chunk]) + Len(incoming[2].buf) > tensor.max_chunk_size

\* an already-serialized wrapper: a Sample of bytes in the tensor's compression
Serialized(smp) == smp.kind = "Sample" /\ smp.comp = tensor.compression

\* the i-th sample of the caller's list is the one the last call of
\* extend_if_has_space rejected for lack of space
Rejected(i) ==
    \/ /\ last.op = "extend" /\ last.err = "none"
       /\ last.ret < Len(incoming) /\ i = last.ret + 1
    \/ /\ last.op = "rest" /\ incoming # <<>> /\ i = 1

\* C2: a sample rejected for lack of space is left in the caller's list as an
\* already-serialized wrapper, and when a second chunk accepts that wrapper it
\* appends the bytes of the first attempt, the codec not compressing the sample
\* again, whatever the compression.
C2_Memoization ==
    [][ExtendReturned =>
         /\ last'.ret < Len(incoming') => Serialized(incoming'[last'.ret + 1])
         /\ \A i \in 1..last'.ret :
              (Rejected(i) /\ last'.chunk # last.chunk) =>
                 /\ Serialized(incoming[i])
                 /\ i \notin last'.compressed
                 /\ Payload(chunks'[last'.chunk],
                            Len(chunks[last'.chunk].byte_positions) + i) = incoming[i].buf]_vars

\* the array a sample stands for
ArrayOf(smp) == SampleArray(smp, tensor.dtype)

\* what read_sample is to return for a sample: its recorded shape, and its content
\* cast to the tensor's dtype
Expected(smp) ==
    [err |-> "none", kind |-> "ndarray", dt |-> tensor.dtype,
     shape |-> IF smp.shape = <<>> THEN <<1>> ELSE smp.shape,
     vals |-> Cast(ArrayOf(smp), tensor.dtype).vals]

\* C3: once extend_if_has_space has accepted a non-text sample, read_sample at its
\* local index returns the sample decompressed: its recorded shape, and its content
\* cast to the tensor's dtype.
C3_RoundTrip ==
    [][(ExtendReturned /\ ~tensor.is_text_like) =>
         \A i \in 1..last'.ret :
            read_sample(chunks'[last'.chunk],
                        Len(chunks[last'.chunk].byte_positions) + i, tensor)
              = Expected(incoming[i])]_vars

\* the headers and the buffer of a chunk agree
HeadersAgree(ch) ==
    /\ Len(ch.byte_positions) = Len(ch.shapes_encoder)
    /\ Len(ch.byte_positions) = Len(ch.shapes)
    /\ \A i \in 1..Len(ch.byte_positions) :
          /\ ch.byte_positions[i][1] = (IF i = 1 THEN 0 ELSE ch.byte_positions[i - 1][2])
          /\ ch.byte_positions[i][1] <= ch.byte_positions[i][2]
    /\ Len(ch.data_bytes)
         = (IF ch.byte_positions = <<>> THEN 0
            ELSE ch.byte_positions[Len(ch.byte_positions)][2])

\* the chunk with the wrappers 1..n of a list appended
RECURSIVE WithAccepted(_, _, _)
WithAccepted(ch, samples, n) ==
    IF n = 0 THEN ch
    ELSE LET prev == WithAccepted(ch, samples, n - 1)
             sb   == Len(prev.data_bytes)
         IN  [data_bytes |-> prev.data_bytes \o samples[n].buf,
              byte_positions |-> Append(prev.byte_positions, <<sb, sb + Len(samples[n].buf)>>),
              shapes_encoder |-> Append(prev.shapes_encoder, samples[n].shape),
              shapes |-> Append(prev.shapes, samples[n].shape)]

\* C7: after every step each chunk has as many byte ranges as shapes, each byte
\* range starts where the one before ends, and the buffer is as long as the last
\* end_byte; a call of extend_if_has_space that accepted n samples added exactly
\* those n payloads, ranges and shapes, so a rejected sample changes neither the
\* buffer nor a header, and no other chunk changes.
C7_Headers ==
    [][/\ \A c \in ChunkIds : HeadersAgree(chunks'[c])
       /\ ExtendReturned =>
            /\ chunks'[last'.chunk] = WithAccepted(chunks[last'.chunk], incoming', last'.ret)
            /\ \A c \in ChunkIds \ {last'.chunk} : chunks'[c] = chunks[c]]_vars

\* C7 witness: a chunk holds two samples and the call that filled it rejected a third.
C7_Witness ==
    /\ last.op = "extend" /\ last.err = "none"
    /\ Len(chunks[last.chunk].byte_positions) = 2
    /\ last.ret < Len(incoming)
    /\ chunks[last.chunk].byte_positions[2][1] > 0

(***************************************************************************)
(* merge_chunk_id_encoders (hub/util/transform.py), for one tensor.  A row *)
(* of a chunk-id encoder is <<chunk id, index of the last sample of the    *)
(* chunk>>; the rows of an encoder have non-decreasing last indexes.       *)
(***************************************************************************)
NoRows == [none |-> TRUE, rows |-> <<>>]

Rows(rs) == [none |-> FALSE, rows |-> rs]

\* Encoder.num_samples: one more than the last index of the last row
num_samples(enc) ==
    IF enc.none \/ enc.rows = <<>> THEN 0 ELSE enc.rows[Len(enc.rows)][2] + 1

NonDecreasing(rs) == \A i \in 1..(Len(rs) - 1) : rs[i][2] <= rs[i + 1][2]

\* the encoders of the model: no _encoded_ids yet, or up to two rows; the chunk
\* ids name the encoder (base) and the row
Encoders(base) ==
    {NoRows} \cup
    {Rows(rs) : rs \in {r \in UNION {[1..n -> (0..MaxLastIndex)] : n \in 0..2} :
                          \A i \in 1..(Len(r) - 1) : r[i] <= r[i + 1]}}

WithIds(enc, base) ==
    [enc EXCEPT !.rows = [i \in 1..Len(enc.rows) |-> <<base + i, enc.rows[i]>>]]

CieIdle ==
    /\ cie_dest = NoRows
    /\ cie_workers = <<>>
    /\ cie_offset = 0
    /\ cie_pc = 0
    /\ cie_cache = NoRows
    /\ cie_in = <<>>

\* Lines 158-159: the destination encoder and the offset it starts from
CieInit ==
    /\ \E d \in Encoders(0) : cie_dest = WithIds(d, 0)
    /\ \E k \in 1..MaxWorkers : \E ws \in [1..k -> Encoders(0)] :
          cie_workers = [w \in 1..k |-> WithIds(ws[w], 10 * w)]
    /\ cie_offset = num_samples(cie_dest)
    /\ cie_pc = 1
    /\ cie_cache = NoRows
    /\ cie_in = [dest |-> cie_dest, workers |-> cie_workers]

\* Line 166: encoded_id[1] += offset
ShiftRow(row, offset) == <<row[1], row[2] + offset>>

\* Lines 167-172: the row becomes the first row of the destination, or is stacked
\* under its rows
AppendRow(dest, row) == Rows(dest.rows \o <<row>>)

\* Lines 165-172: every row of the worker, shifted and appended in order
RECURSIVE AppendRows(_, _, _)
AppendRows(dest, rs, offset) ==
    IF rs = <<>> THEN dest
    ELSE AppendRows(AppendRow(dest, ShiftRow(Head(rs), offset)), Tail(rs), offset)

\* NextOffset counting the rows of the worker instead of its samples.
NextOffsetByRows(offset, enc) == offset + Len(enc.rows)

\* Line 173: offset += num_samples
NextOffset(offset, enc) == offset + num_samples(enc)

\* Lines 160-173: one worker of the loop
MergeEncoder ==
    /\ cie_pc \in 1..Len(cie_workers)
    /\ LET cur == cie_workers[cie_pc]
       IN  /\ cie_dest' = IF cur.none THEN cie_dest
                          ELSE AppendRows(cie_dest, cur.rows, cie_offset)
           /\ cie_workers' =
                 [cie_workers EXCEPT ![cie_pc].rows =
                     [i \in 1..Len(cur.rows) |-> ShiftRow(cur.rows[i], cie_offset)]]
           /\ cie_offset' = NextOffset(cie_offset, cur)
    /\ cie_pc' = cie_pc + 1
    /\ UNCHANGED <<cie_cache, cie_in>>

\* Lines 174-176: the merged encoder is stored and flushed
StoreEncoder ==
    /\ cie_pc = Len(cie_workers) + 1
    /\ cie_cache' = cie_dest
    /\ cie_pc' = cie_pc + 1
    /\ UNCHANGED <<cie_dest, cie_workers, cie_offset, cie_in>>

\* the merge of the encoders has ended
CieDone == cie_pc = Len(cie_workers) + 2

\* the samples of the destination and of the workers before worker w, at the start
RECURSIVE SamplesBefore(_)
SamplesBefore(w) ==
    IF w = 1 THEN num_samples(cie_in.dest)
    ELSE SamplesBefore(w - 1) + num_samples(cie_in.workers[w - 1])

\* the rows of the workers 1..k as they were at the start, each with its last
\* index raised by the samples before its worker
RECURSIVE ShiftedRows(_)
ShiftedRows(k) ==
    IF k = 0 THEN <<>>
    ELSE ShiftedRows(k - 1) \o
         [i \in 1..Len(cie_in.workers[k].rows) |->
             <<cie_in.workers[k].rows[i][1],
               cie_in.workers[k].rows[i][2] + SamplesBefore(k)>>]

\* C4: when merge_chunk_id_encoders has ended, the destination holds its own rows
\* followed by every worker's rows in worker order, the last index of each row of
\* worker i raised by the destination's initial sample count plus the sample
\* counts of the workers before i, workers without rows included, and the last
\* indexes of the merged table never decrease from one row to the next.
C4_MergeOffsets ==
    CieDone =>
       /\ cie_cache.rows = cie_in.dest.rows \o ShiftedRows(Len(cie_in.workers))
       /\ cie_cache.none = (cie_in.dest.none /\ \A w \in 1..Len(cie_in.workers) :
                                                   cie_in.workers[w].rows = <<>>)
       /\ NonDecreasing(cie_cache.rows)

\* C4 witness: a merge ended in which a worker without rows preceded a worker with
\* rows, and the destination held samples at the start.
C4_Witness ==
    /\ CieDone
    /\ Len(cie_in.workers) = 2
    /\ cie_in.workers[1].rows = <<>>
    /\ Len(cie_in.workers[2].rows) = 2
    /\ num_samples(cie_in.dest) > 0

(***************************************************************************)
(* merge_tensor_metas (hub/util/transform.py), for one tensor.             *)
(***************************************************************************)
Min(a, b) == IF a <= b THEN a ELSE b

Max(a, b) == IF a >= b THEN a ELSE b

\* a tensor meta without samples: no shape bounds, and perhaps no dtype
EmptyMeta(d) == [dtype |-> d, length |-> 0, min_shape |-> <<>>, max_shape |-> <<>>]

\* the metas of the model: without samples, or with one or two samples of rank 1
\* and either dtype, or with a sample of rank 2
Metas ==
    {EmptyMeta("none"), EmptyMeta("uint8")}
    \cup {[dtype |-> d, length |-> n, min_shape |-> <<lo>>, max_shape |-> <<hi>>] :
            d \in Dtypes, n \in {1, 2}, lo \in {1, 2}, hi \in {2, 3}}
    \cup {[dtype |-> "uint8", length |-> 1, min_shape |-> <<1, 2>>, max_shape |-> <<2, 2>>]}

\* TensorMeta._update_shape_interval: the bounds widened to hold the shape
update_shape_interval(meta, shape) ==
    IF meta.min_shape = <<>>
    THEN [meta EXCEPT !.min_shape = shape, !.max_shape = shape]
    ELSE [meta EXCEPT
            !.min_shape = [i \in 1..Len(shape) |-> Min(shape[i], meta.min_shape[i])],
            !.max_shape = [i \in 1..Len(shape) |-> Max(shape[i], meta.max_shape[i])]]

\* Line 135: the destination meta is empty
MetaIsEmpty(meta) == Len(meta.max_shape) = 0 \/ meta.dtype = "none"

\* Lines 136-139: the attributes of the worker's meta are copied
AdoptMeta(meta, cur) ==
    [dtype |-> cur.dtype, length |-> meta.length + cur.length,
     min_shape |-> cur.min_shape, max_shape |-> cur.max_shape]

\* Lines 143-146: the assertions on a worker with samples
MetaAsserts(meta, cur) ==
    /\ meta.dtype = cur.dtype
    /\ Len(meta.max_shape) = Len(cur.max_shape)
    /\ Len(meta.min_shape) = Len(cur.min_shape)

\* WidenMeta without the worker's min_shape.
WidenMetaMaxOnly(meta, cur) ==
    update_shape_interval([meta EXCEPT !.length = @ + cur.length], cur.max_shape)

\* Lines 147-149: the length added and the bounds widened by the worker's bounds
WidenMeta(meta, cur) ==
    update_shape_interval(
        update_shape_interval([meta EXCEPT !.length = @ + cur.length], cur.max_shape),
        cur.min_shape)

TmIdle ==
    /\ tm_dest = EmptyMeta("none")
    /\ tm_workers = <<>>
    /\ tm_pc = 0
    /\ tm_err = "none"
    /\ tm_cache = EmptyMeta("none")
    /\ tm_in = EmptyMeta("none")

TmInit ==
    /\ tm_dest \in Metas
    /\ \E k \in 1..MaxWorkers : tm_workers \in [1..k -> Metas]
    /\ tm_pc = 1
    /\ tm_err = "none"
    /\ tm_cache = EmptyMeta("none")
    /\ tm_in = tm_dest

\* Lines 132-149: one worker of the loop
MergeMeta ==
    /\ tm_pc \in 1..Len(tm_workers)
    /\ tm_err = "none"
    /\ LET cur == tm_workers[tm_pc]
       IN  IF MetaIsEmpty(tm_dest)
           THEN tm_dest' = AdoptMeta(tm_dest, cur) /\ tm_err' = "none"
           ELSE IF Len(cur.min_shape) # 0
           THEN IF MetaAsserts(tm_dest, cur)
                THEN tm_dest' = WidenMeta(tm_dest, cur) /\ tm_err' = "none"
                ELSE tm_dest' = tm_dest /\ tm_err' = "AssertionError"
           ELSE tm_dest' = tm_dest /\ tm_err' = "none"
    /\ tm_pc' = tm_pc + 1
    /\ UNCHANGED <<tm_workers, tm_cache, tm_in>>

\* Lines 150-152: the merged meta is stored and flushed
StoreMeta ==
    /\ tm_pc = Len(tm_workers) + 1
    /\ tm_err = "none"
    /\ tm_cache' = tm_dest
    /\ tm_pc' = tm_pc + 1
    /\ UNCHANGED <<tm_dest, tm_workers, tm_err, tm_in>>

\* merge_tensor_metas has ended without an error
TmDone == tm_pc = Len(tm_workers) + 2 /\ tm_err = "none"

RECURSIVE SumLengths(_)
SumLengths(ms) == IF ms = <<>> THEN 0 ELSE Head(ms).length + SumLengths(Tail(ms))

\* the workers that have samples
NonEmptyWorkers == {w \in 1..Len(tm_workers) : Len(tm_workers[w].min_shape) # 0}

\* the least, and the greatest, of a non-empty set of numbers
Least(S) == CHOOSE x \in S : \A y \in S : x <= y

Greatest(S) == CHOOSE x \in S : \A y \in S : x >= y

\* the bounds of the merged meta are those of the metas ms, component by component
BoundsOver(ms) ==
    IF ms = {} THEN tm_cache.min_shape = <<>> /\ tm_cache.max_shape = <<>>
    ELSE /\ \A m \in ms : Len(m.min_shape) = Len(tm_cache.min_shape)
         /\ tm_cache.min_shape =
               [i \in 1..Len(tm_cache.min_shape) |-> Least({m.min_shape[i] : m \in ms})]
         /\ tm_cache.max_shape =
               [i \in 1..Len(tm_cache.max_shape) |-> Greatest({m.max_shape[i] : m \in ms})]

\* C6 as claimed: the merged length is the destination's initial length plus the
\* lengths of all workers, and the merged shape bounds are the component-wise
\* minimum and maximum over the workers with samples only.
C6_BoundsOverWorkersOnly ==
    TmDone =>
       /\ tm_cache.length = tm_in.length + SumLengths(tm_workers)
       /\ BoundsOver({tm_workers[w] : w \in NonEmptyWorkers})

\* C6: the merged length is the destination's initial length plus the lengths of
\* all workers, and the merged shape bounds are the component-wise minimum and
\* maximum over the destination's initial bounds, when it held samples, and the
\* workers with samples; a worker without samples adds nothing to the bounds,
\* wherever it stands in the order.
C6_MergedMeta ==
    TmDone =>
       /\ tm_cache.length = tm_in.length + SumLengths(tm_workers)
       /\ BoundsOver({tm_workers[w] : w \in NonEmptyWorkers}
                     \cup (IF Len(tm_in.min_shape) # 0 THEN {tm_in} ELSE {}))

\* C6 witness: a merge ended in which a worker without samples preceded a worker
\* with samples whose bounds differ from those the merge ends with.
C6_Witness ==
    /\ TmDone
    /\ Len(tm_workers) = 2
    /\ Len(tm_workers[1].min_shape) = 0
    /\ Len(tm_workers[2].min_shape) # 0
    /\ tm_cache.length > tm_workers[2].length
    /\ tm_cache.min_shape # tm_workers[2].min_shape

(***************************************************************************)
(* get_first_chunk and merge_chunks (hub/util/transform.py).  A worker     *)
(* wrote its samples into the chunks "A" and then "B"; "L" is the last     *)
(* chunk of the worker before it.  A sample without data has no chunk.     *)
(***************************************************************************)
\* the kinds of the samples of a worker, in order: "E" has no data, "A" and "B" lie
\* in one chunk, "AB" begins in "A" and ends in "B"
RankOfKind(k) == IF k = "A" THEN 1 ELSE IF k = "AB" THEN 2 ELSE 3

WorkerLayouts ==
    {ks \in UNION {[1..n -> {"E", "A", "AB", "B"}] : n \in 1..MaxEntries} :
        /\ \A i, j \in 1..Len(ks) :
              (i < j /\ ks[i] # "E" /\ ks[j] # "E") => RankOfKind(ks[i]) <= RankOfKind(ks[j])
        /\ Cardinality({i \in 1..Len(ks) : ks[i] = "AB"}) <= 1}

CountBefore(ks, i, k) == Cardinality({j \in 1..(i - 1) : ks[j] = k})

\* the index entries of a layout: samples of two bytes, one after the other; a
\* sample across two chunks fills "A" and takes one byte of "B"
EntriesOf(ks) ==
    [i \in 1..Len(ks) |->
        IF ks[i] = "E" THEN [chunk_names |-> <<>>, start_byte |-> 0, end_byte |-> 0]
        ELSE IF ks[i] = "A"
        THEN [chunk_names |-> <<"A">>, start_byte |-> 2 * CountBefore(ks, i, "A"),
              end_byte |-> 2 * CountBefore(ks, i, "A") + 2]
        ELSE IF ks[i] = "AB"
        THEN [chunk_names |-> <<"A", "B">>, start_byte |-> 2 * CountBefore(ks, i, "A"),
              end_byte |-> 1]
        ELSE [chunk_names |-> <<"B">>,
              start_byte |-> CountBefore(ks, i, "AB") + 2 * CountBefore(ks, i, "B"),
              end_byte |-> CountBefore(ks, i, "AB") + 2 * CountBefore(ks, i, "B") + 2]]

\* the bytes of a chunk: n bytes that name the chunk
ChunkBytes(tag, n) == [i \in 1..n |-> tag + i]

\* the storage that goes with a layout, the last chunk of the worker before
\* holding l bytes
StorageOf(ks, l) ==
    LET nA == Cardinality({i \in 1..Len(ks) : ks[i] = "A"})
        nB == Cardinality({i \in 1..Len(ks) : ks[i] = "B"})
        ab == Cardinality({i \in 1..Len(ks) : ks[i] = "AB"})
    IN  [k \in {"L"} \cup (IF nA + ab > 0 THEN {"A"} ELSE {})
                     \cup (IF nB + ab > 0 THEN {"B"} ELSE {}) |->
            IF k = "L" THEN ChunkBytes(30, l)
            ELSE IF k = "A"
            THEN ChunkBytes(10, IF ab > 0 THEN DEFAULT_MAX_CHUNK_SIZE ELSE 2 * nA)
            ELSE ChunkBytes(20, ab + 2 * nB)]

\* Lines 72-80 of get_first_chunk: the size, walking the entries from the i-th on
RECURSIVE first_chunk_size_from(_, _, _, _)
first_chunk_size_from(entries, i, chunk_name, chunk_size) ==
    IF i > Len(entries) THEN chunk_size
    ELSE IF entries[i].chunk_names = <<chunk_name>>
    THEN first_chunk_size_from(entries, i + 1, chunk_name, entries[i].end_byte)
    ELSE IF Len(entries[i].chunk_names) > 1 /\ entries[i].chunk_names[1] = chunk_name
    THEN first_chunk_size_from(entries, i + 1, chunk_name, DEFAULT_MAX_CHUNK_SIZE)
    ELSE chunk_size

\* get_first_chunk: the name and the size of the first chunk of an index meta
get_first_chunk(entries) ==
    IF Len(entries) > 0 /\ Len(entries[1].chunk_names) > 0
    THEN [name |-> entries[1].chunk_names[1],
          size |-> first_chunk_size_from(entries, 1, entries[1].chunk_names[1], 0)]
    ELSE [name |-> "", size |-> 0]

McIdle ==
    /\ mc_storage = <<>>
    /\ mc_meta = <<>>
    /\ mc_args = <<>>
    /\ mc_pc = 0
    /\ mc_in = <<>>

\* The caller: the first chunk of the worker's index meta is to be merged into the
\* last chunk of the worker before it, when both exist.
McInit ==
    /\ \E ks \in WorkerLayouts : \E l \in 1..DEFAULT_MAX_CHUNK_SIZE :
          /\ mc_meta = EntriesOf(ks)
          /\ mc_storage = StorageOf(ks, l)
          /\ \E target \in 1..DEFAULT_MAX_CHUNK_SIZE :
                mc_args = [chunk_min_target |-> target,
                           first_chunk_name |-> get_first_chunk(mc_meta).name,
                           first_chunk_size |-> get_first_chunk(mc_meta).size,
                           last_chunk_name |-> "L",
                           last_chunk_size |-> l]
    /\ mc_args.first_chunk_name # ""
    /\ mc_pc = 1
    /\ mc_in = [storage |-> mc_storage, entries |-> mc_meta]

\* Lines 98-101: the two chunks are to be merged
ShouldMerge(a) ==
    /\ a.first_chunk_size < a.chunk_min_target
    /\ a.first_chunk_size + a.last_chunk_size <= DEFAULT_MAX_CHUNK_SIZE

\* Lines 105-110: the first chunk is deleted and the last chunk takes its bytes
MergedStorage(storage, a) ==
    [k \in DOMAIN storage \ {a.first_chunk_name} |->
        IF k = a.last_chunk_name
        THEN storage[a.last_chunk_name] \o storage[a.first_chunk_name]
        ELSE storage[k]]

\* Lines 116-118: the entry points at the last chunk, offset bytes further on
MovedEntry(e, a, offset) ==
    [chunk_names |-> <<a.last_chunk_name>>,
     start_byte |-> e.start_byte + offset,
     end_byte |-> e.end_byte + offset]

\* Lines 114-120: the entries from the i-th on, up to the first that does not
\* point at the first chunk alone
RECURSIVE rewrite_entries(_, _, _, _)
rewrite_entries(entries, i, a, offset) ==
    IF i > Len(entries) THEN entries
    ELSE IF entries[i].chunk_names = <<a.first_chunk_name>>
    THEN rewrite_entries([entries EXCEPT ![i] = MovedEntry(entries[i], a, offset)],
                         i + 1, a, offset)
    ELSE entries

\* merge_chunks
MergeChunks ==
    /\ mc_pc = 1
    /\ IF ShouldMerge(mc_args)
       THEN /\ mc_storage' = MergedStorage(mc_storage, mc_args)
            /\ mc_meta' = rewrite_entries(mc_meta, 1, mc_args, mc_args.last_chunk_size)
       ELSE UNCHANGED <<mc_storage, mc_meta>>
    /\ mc_pc' = 2
    /\ UNCHANGED <<mc_args, mc_in>>

\* C5: after a call of merge_chunks with first_chunk_size < chunk_min_target and
\* first_chunk_size + last_chunk_size within the maximum chunk size, the key of
\* the first chunk is gone, the last chunk holds its bytes followed by those of
\* the first chunk, every entry that pointed at the first chunk alone points at
\* the last chunk alone with start_byte and end_byte raised by last_chunk_size,
\* and every other entry is as it was.
C5_CornerMerge ==
    (mc_pc = 2 /\ ShouldMerge(mc_args)) =>
       /\ mc_args.first_chunk_name \notin DOMAIN mc_storage
       /\ mc_storage[mc_args.last_chunk_name]
            = mc_in.storage[mc_args.last_chunk_name] \o mc_in.storage[mc_args.first_chunk_name]
       /\ Len(mc_meta) = Len(mc_in.entries)
       /\ \A i \in 1..Len(mc_meta) :
             IF mc_in.entries[i].chunk_names = <<mc_args.first_chunk_name>>
             THEN mc_meta[i] = [chunk_names |-> <<mc_args.last_chunk_name>>,
                                start_byte |-> mc_in.entries[i].start_byte
                                                 + mc_args.last_chunk_size,
                                end_byte |-> mc_in.entries[i].end_byte
                                               + mc_args.last_chunk_size]
             ELSE mc_meta[i] = mc_in.entries[i]

(***************************************************************************)
(* transform_sample (hub/util/transform.py).  A value is a mapping, a      *)
(* number (neither a mapping nor iterable), a list or a tuple; a function  *)
(* of the pipeline may return any value.                                   *)
(***************************************************************************)
ADict == [k |-> "dict", items |-> <<>>]

AnInt == [k |-> "int", items |-> <<>>]

ListOf(xs) == [k |-> "list", items |-> xs]

TupleOf(xs) == [k |-> "tuple", items |-> xs]

IsDict(v) == v.k = "dict"

\* isinstance(v, (list, tuple))
IsListOrTuple(v) == v.k \in {"list", "tuple"}

\* the mappings and numbers in a value, at any depth
RECURSIVE Leaves(_)
Leaves(v) ==
    IF ~IsListOrTuple(v) THEN 1
    ELSE IF v.items = <<>> THEN 0
    ELSE Leaves(Head(v.items)) + Leaves([v EXCEPT !.items = Tail(@)])

\* what a function of the pipeline may return: a mapping, a number, a list or a
\* tuple of those, or a list of such values, of at most MaxLeaves mappings and numbers
FlatValues ==
    {ADict, AnInt}
    \cup {ListOf(xs) : xs \in SeqsUpTo({ADict, AnInt}, MaxLeaves)}
    \cup {TupleOf(xs) : xs \in SeqsUpTo({ADict, AnInt}, MaxLeaves)}

Outputs ==
    {v \in FlatValues \cup {ListOf(xs) : xs \in SeqsUpTo(FlatValues, MaxLeaves)} :
        Leaves(v) <= MaxLeaves}

\* flatten_list_of_list: a mapping is appended, anything else is iterated; a value
\* that cannot be iterated raises TypeError
RECURSIVE flatten_list_of_list(_)
flatten_list_of_list(ls) ==
    IF ls = <<>> THEN [err |-> "none", items |-> <<>>]
    ELSE LET r    == Head(ls)
             rest == flatten_list_of_list(Tail(ls))
         IN  IF IsDict(r)
             THEN [rest EXCEPT !.items = <<r>> \o @]
             ELSE IF ~IsListOrTuple(r)
             THEN [err |-> "TypeError", items |-> <<>>]
             ELSE [rest EXCEPT !.items = r.items \o @]

\* verify_transform_output
verify_transform_output(output) ==
    IF IsListOrTuple(output)
    THEN IF \A i \in 1..Len(output.items) : IsDict(output.items[i])
         THEN "none" ELSE "InvalidTransformOutputError"
    ELSE IF IsDict(output) THEN "none" ELSE "InvalidTransformOutputError"

\* Lines 33-35: the result of a function flattened, when it is a list, and verified
flatten_and_verify(raw) ==
    LET flat == IF raw.k = "list" THEN flatten_list_of_list(raw.items)
                ELSE [err |-> "none", items |-> raw.items]
    IN  IF flat.err # "none" THEN [err |-> flat.err, result |-> raw]
        ELSE [err |-> verify_transform_output([raw EXCEPT !.items = flat.items]),
              result |-> [raw EXCEPT !.items = flat.items]]

TsIdle ==
    /\ ts_result = ADict
    /\ ts_raw = ADict
    /\ ts_index = 0
    /\ ts_len = 0
    /\ ts_outcome = "idle"

\* Line 25: result = sample, for a pipeline of one or more functions
TsInit ==
    /\ ts_result \in {ADict, ListOf(<<ADict, ADict>>)}
    /\ ts_raw = ADict
    /\ ts_index = 0
    /\ ts_len \in 1..MaxStages
    /\ ts_outcome = "running"

\* Lines 27-35: one function of the pipeline, applied to the result or to each of
\* its items, then flattened and verified
ApplyFunction ==
    /\ ts_outcome = "running"
    /\ ts_index < ts_len
    /\ \E raw \in IF IsListOrTuple(ts_result) /\ ts_index # 0
                  THEN {ListOf(xs) : xs \in [1..Len(ts_result.items) -> Outputs]}
                  ELSE Outputs :
          /\ ts_raw' = raw
          /\ ts_result' = flatten_and_verify(raw).result
          /\ ts_outcome' = IF flatten_and_verify(raw).err = "none" THEN "running"
                           ELSE flatten_and_verify(raw).err
    /\ ts_index' = ts_index + 1
    /\ UNCHANGED ts_len

\* Line 36: return result if isinstance(result, list) else [result]
ReturnResult ==
    /\ ts_outcome = "running"
    /\ ts_index = ts_len
    /\ ts_result' = IF ts_result.k = "list" THEN ts_result ELSE ListOf(<<ts_result>>)
    /\ ts_outcome' = "returned"
    /\ UNCHANGED <<ts_raw, ts_index, ts_len>>

\* a value is a mapping, or a list or tuple, at any depth, of mappings only
RECURSIVE OnlyMappings(_)
OnlyMappings(v) ==
    IF ~IsListOrTuple(v) THEN IsDict(v)
    ELSE \A i \in 1..Len(v.items) : OnlyMappings(v.items[i])

\* C8: once a function of the pipeline has returned something that is neither a
\* mapping nor a list of mappings (a number, or a list that holds a number, or a
\* list that holds lists of numbers), transform_sample ends in
\* InvalidTransformOutputError: it returns nothing and raises no other error.
C8_InvalidOutput ==
    (ts_index > 0 /\ ~OnlyMappings(ts_raw)) => ts_outcome = "InvalidTransformOutputError"

(***************************************************************************)
(* LinkedChunkEngine (hub/core/linked_chunk_engine.py).  A creds encoder   *)
(* is the sequence of the encoded creds keys of the samples, in order.     *)
(* The engine's _creds_encoder is "None", or "cached" (the object that     *)
(* meta_cache holds under the key of _creds_encoder_commit_id), or "own"   *)
(* (an object that a read-only meta_cache refused to store: it is empty,   *)
(* since a read-only tensor takes no samples).                             *)
(***************************************************************************)
CommitIds == {"first", "second"}

CredsKeys == {"None", "my_key"}

LinkedSample(creds_key) == [linked |-> TRUE, creds_key |-> creds_key]

\* a sample that is not a LinkedSample
AnArray == [linked |-> FALSE, creds_key |-> "None"]

LinkSamples == {LinkedSample(k) : k \in CredsKeys} \cup {AnArray}

\* link_creds.get_encoding: 0 without a key, else the place of the key among the
\* keys of the dataset, from 1
get_encoding(creds_key) == IF creds_key = "None" THEN 0 ELSE 1

NoEncoder == [exists |-> FALSE, rows |-> <<>>]

CredsEncoder(rows) == [exists |-> TRUE, rows |-> rows]

\* the engine as a record
Engine ==
    [meta_cache |-> lce_meta_cache,
     creds_encoder |-> lce_creds_encoder,
     creds_encoder_commit_id |-> lce_creds_encoder_commit_id,
     encoder_id |-> lce_encoder_id,
     objects |-> lce_objects]

\* Lines 48-61: the creds_encoder_exists property
creds_encoder_exists(e) ==
    \/ e.creds_encoder # "None" /\ e.creds_encoder_commit_id = lce_commit_id
    \/ e.meta_cache[lce_commit_id].exists

\* Lines 36 and 42: enc is an object the engine did not hold before
NewObject(e) == [e EXCEPT !.objects = @ + 1, !.encoder_id = e.objects + 1]

\* Lines 32-45: the encoder of the current commit id is created (and stored, unless
\* meta_cache is read-only) or loaded
load_or_create(e) ==
    IF ~creds_encoder_exists(e)
    THEN IF lce_read_only
         THEN [NewObject(e) EXCEPT !.creds_encoder = "own",
                                   !.creds_encoder_commit_id = lce_commit_id]
         ELSE [NewObject(e) EXCEPT !.meta_cache[lce_commit_id] = CredsEncoder(<<>>),
                                   !.creds_encoder = "cached",
                                   !.creds_encoder_commit_id = lce_commit_id]
    ELSE [NewObject(e) EXCEPT !.creds_encoder = "cached",
                              !.creds_encoder_commit_id = lce_commit_id]

\* creds_encoder without the test of the commit id
creds_encoder_of_any_commit(e) ==
    IF e.creds_encoder = "None" THEN load_or_create(e) ELSE e

\* Lines 29-46: the engine after the creds_encoder property was read
creds_encoder(e) ==
    IF e.creds_encoder = "None" \/ e.creds_encoder_commit_id # lce_commit_id
    THEN load_or_create(e)
    ELSE e

\* the rows of the engine's creds encoder
RowsOf(e) ==
    IF e.creds_encoder = "cached" THEN e.meta_cache[e.creds_encoder_commit_id].rows
    ELSE <<>>

\* the engine's creds encoder with other rows
WithRows(e, rows) == [e EXCEPT !.meta_cache[e.creds_encoder_commit_id].rows = rows]

\* Lines 125-128: the encoded creds keys of the first n samples, one row each
RegisteredRows(rows, n, samples) ==
    rows \o [i \in 1..n |-> get_encoding(samples[i].creds_key)]

SetEngine(e) ==
    /\ lce_meta_cache' = e.meta_cache
    /\ lce_creds_encoder' = e.creds_encoder
    /\ lce_creds_encoder_commit_id' = e.creds_encoder_commit_id
    /\ lce_encoder_id' = e.encoder_id
    /\ lce_objects' = e.objects

(***************************************************************************)
(* LinkedChunkEngine.get_video_sample.  index is an Index, whose values    *)
(* hold the sample index and perhaps a sub-index (a frame number or a      *)
(* slice of frames), or it is a bare int; a video is its number of frames  *)
(* and the shape of a frame.                                               *)
(***************************************************************************)
NoSubIndex == [kind |-> "None", start |-> 0, stop |-> 0, step |-> 1]

FrameNumber(k) == [kind |-> "int", start |-> k, stop |-> 0, step |-> 1]

FrameSlice(start, stop, step) == [kind |-> "slice", start |-> start, stop |-> stop, step |-> step]

\* the sub-indexes of the model, for a video of nframes frames
SubIndexes(nframes) ==
    {NoSubIndex}
    \cup {FrameNumber(k) : k \in (0 - 1)..(nframes - 1)}
    \cup {FrameSlice(a, b, st) : a \in 0..(nframes - 1), b \in 0..nframes, st \in {1, 2, 0 - 1}}

\* the indexes of the model: a bare int, or an Index with or without a sub-index
VideoIndexes(nframes) ==
    {[is_int |-> TRUE, sub |-> NoSubIndex]}
    \cup {[is_int |-> FALSE, sub |-> s] : s \in SubIndexes(nframes)}

SamplePaths == {"s3://", "gcs://", "gcp://", "/local/"}

\* the shape of a frame of the videos of the model
FrameShape == <<2, 2, 3>>

\* hub.util.video.normalize_index: start, stop, step and reverse for a frame
\* number, a slice, or no sub-index
normalize_index(sub, nframes) ==
    IF sub.kind = "None"
    THEN [start |-> 0, stop |-> nframes, step |-> 1, reverse |-> FALSE]
    ELSE IF sub.kind = "int"
    THEN LET start == IF sub.start >= 0 THEN sub.start ELSE nframes + sub.start
         IN  [start |-> start, stop |-> start + 1, step |-> 1, reverse |-> FALSE]
    ELSE IF sub.step < 0
    THEN [start |-> sub.stop + 1, stop |-> sub.start + 1, step |-> 0 - sub.step,
          reverse |-> TRUE]
    ELSE [start |-> sub.start, stop |-> sub.stop, step |-> sub.step, reverse |-> FALSE]

\* the frames start, start + step, ... below stop
RECURSIVE FramesFrom(_, _, _)
FramesFrom(start, stop, step) ==
    IF start >= stop THEN <<>> ELSE <<start>> \o FramesFrom(start + step, stop, step)

Reversed(s) == [i \in 1..Len(s) |-> s[Len(s) + 1 - i]]

\* _decompress_video(url, start, stop, step, reverse): the frames of the window,
\* as an array of one more dimension than a frame
decompress_video(w) ==
    LET frames == FramesFrom(w.start, w.stop, w.step)
    IN  [frames |-> IF w.reverse THEN Reversed(frames) ELSE frames,
         shape |-> <<Len(FramesFrom(w.start, w.stop, w.step))>> \o FrameShape]

\* ndarray.squeeze(0): a new array without the first dimension, which must be 1;
\* the array it is called on stays as it is
squeeze0(arr) ==
    IF arr.shape[1] = 1
    THEN [err |-> "none", frames |-> arr.frames, shape |-> Tail(arr.shape)]
    ELSE [err |-> "ValueError", frames |-> <<>>, shape |-> <<>>]

NoVideo ==
    [index |-> [is_int |-> FALSE, sub |-> NoSubIndex], nframes |-> 0, provider |-> "none",
     window |-> [start |-> 0, stop |-> 0, step |-> 1, reverse |-> FALSE],
     frames |-> <<>>, shape |-> <<>>]

\* Lines 72-94 of get_video_sample: the provider of the storage, the window that
\* is decoded and the sample that is returned, or the error that is raised
video_sample(sample_path, index, nframes) ==
    LET provider == IF sample_path \in {"gcs://", "gcp://", "s3://"}
                    THEN (IF sample_path = "s3://" THEN "s3" ELSE "gcs")
                    ELSE "none"
        squeeze  == index.is_int
        window   == normalize_index(index.sub, nframes)
        video    == decompress_video(window)
    IN  IF index.is_int
        THEN [err |-> "AttributeError",
              video |-> [NoVideo EXCEPT !.index = index, !.nframes = nframes,
                                        !.provider = provider]]
        ELSE IF squeeze /\ squeeze0(video).err # "none"
        THEN [err |-> squeeze0(video).err,
              video |-> [NoVideo EXCEPT !.index = index, !.nframes = nframes,
                                        !.provider = provider, !.window = window]]
        ELSE [err |-> "none",
              video |-> [index |-> index, nframes |-> nframes, provider |-> provider,
                         window |-> window, frames |-> video.frames,
                         shape |-> video.shape]]

LceIdle ==
    /\ lce_commit_id = "first"
    /\ lce_read_only = FALSE
    /\ lce_meta_cache = [c \in CommitIds |-> NoEncoder]
    /\ lce_creds_encoder = "None"
    /\ lce_creds_encoder_commit_id = "None"
    /\ lce_encoder_id = 0
    /\ lce_objects = 0
    /\ lce_call = [op |-> "idle", samples |-> <<>>, outcome |-> "none"]
    /\ lce_video = NoVideo

\* Lines 16-27: a new engine; the meta_cache may hold the creds encoders that
\* earlier sessions stored
LceInit ==
    /\ lce_commit_id \in CommitIds
    /\ lce_read_only \in BOOLEAN
    /\ lce_meta_cache \in [CommitIds -> {NoEncoder, CredsEncoder(<<>>), CredsEncoder(<<1>>)}]
    /\ lce_creds_encoder = "None"
    /\ lce_creds_encoder_commit_id = "None"
    /\ lce_encoder_id = 0
    /\ lce_objects = 0
    /\ lce_call = [op |-> "__init__", samples |-> <<>>, outcome |-> "none"]
    /\ lce_video = NoVideo

\* version_state["commit_id"] changes
Checkout ==
    /\ \E c \in CommitIds \ {lce_commit_id} : lce_commit_id' = c
    /\ lce_call' = [op |-> "checkout", samples |-> <<>>, outcome |-> "none"]
    /\ lce_video' = NoVideo
    /\ UNCHANGED <<lce_read_only, lce_meta_cache, lce_creds_encoder,
                   lce_creds_encoder_commit_id, lce_encoder_id, lce_objects>>

\* Lines 29-46: the creds_encoder property is read
ReadCredsEncoder ==
    /\ creds_encoder(Engine).objects <= MaxObjects
    /\ SetEngine(creds_encoder(Engine))
    /\ lce_call' = [op |-> "creds_encoder", samples |-> <<>>, outcome |-> "none"]
    /\ lce_video' = NoVideo
    /\ UNCHANGED <<lce_commit_id, lce_read_only>>

\* a check that records the creds of the samples before the first that is not a
\* LinkedSample
CheckEachSampleRegistering ==
    \E samples \in SeqsUpTo(LinkSamples, MaxLinkBatch) :
       LET bad  == {i \in 1..Len(samples) : ~samples[i].linked}
           n    == IF bad = {} THEN Len(samples)
                   ELSE (CHOOSE i \in bad : \A j \in bad : i <= j) - 1
           e    == creds_encoder(Engine)
       IN  /\ ~lce_read_only
           /\ e.objects <= MaxObjects
           /\ Len(RowsOf(e)) + n <= MaxCreds
           /\ SetEngine(WithRows(e, RegisteredRows(RowsOf(e), n, samples)))
           /\ lce_call' = [op |-> "check_each_sample", samples |-> samples,
                           outcome |-> IF bad = {} THEN "none" ELSE "TypeError"]
           /\ lce_video' = NoVideo
           /\ UNCHANGED <<lce_commit_id, lce_read_only>>

\* Lines 114-119: check_each_sample
CheckEachSample ==
    \E samples \in SeqsUpTo(LinkSamples, MaxLinkBatch) :
       /\ lce_call' = [op |-> "check_each_sample", samples |-> samples,
                       outcome |-> IF \E i \in 1..Len(samples) : ~samples[i].linked
                                   THEN "TypeError" ELSE "none"]
       /\ lce_video' = NoVideo
       /\ UNCHANGED <<lce_commit_id, lce_read_only, lce_meta_cache, lce_creds_encoder,
                      lce_creds_encoder_commit_id, lce_encoder_id, lce_objects>>

\* Lines 121-128: register_new_creds, for the samples that a tensor which can be
\* written took, all of them LinkedSamples
RegisterNewCreds ==
    \E samples \in SeqsUpTo({s \in LinkSamples : s.linked}, MaxLinkBatch) :
       \E num_samples_added \in 0..Len(samples) :
          LET e == creds_encoder(Engine)
          IN  /\ ~lce_read_only
              /\ e.objects <= MaxObjects
              /\ Len(RowsOf(e)) + num_samples_added <= MaxCreds
              /\ SetEngine(WithRows(e, RegisteredRows(RowsOf(e), num_samples_added,
                                                      samples)))
              /\ lce_call' = [op |-> "register_new_creds", samples |-> <<>>,
                              outcome |-> "none"]
              /\ lce_video' = NoVideo
              /\ UNCHANGED <<lce_commit_id, lce_read_only>>

\* Lines 130-134: update_creds, of a sample that the tensor holds
UpdateCreds ==
    LET e == creds_encoder(Engine)
    IN  /\ ~lce_read_only
        /\ e.objects <= MaxObjects
        /\ \E sample_index \in 0..(Len(RowsOf(e)) - 1) :
              \E sample \in {s \in LinkSamples : s.linked} :
                 SetEngine(WithRows(e, [RowsOf(e) EXCEPT
                                           ![sample_index + 1] = get_encoding(sample.creds_key)]))
        /\ lce_call' = [op |-> "update_creds", samples |-> <<>>, outcome |-> "none"]
        /\ lce_video' = NoVideo
        /\ UNCHANGED <<lce_commit_id, lce_read_only>>

\* Lines 67-94: get_video_sample, of a sample that the tensor holds
GetVideoSample ==
    LET e == creds_encoder(Engine)
    IN  /\ e.objects <= MaxObjects
        /\ \E global_sample_index \in 0..(Len(RowsOf(e)) - 1) :
              RowsOf(e)[global_sample_index + 1] \in {get_encoding(k) : k \in CredsKeys}
        /\ \E sample_path \in SamplePaths : \E nframes \in 1..MaxFrames :
           \E index \in VideoIndexes(nframes) :
              /\ lce_video' = video_sample(sample_path, index, nframes).video
              /\ lce_call' = [op |-> "get_video_sample", samples |-> <<>>,
                              outcome |-> video_sample(sample_path, index, nframes).err]
        /\ SetEngine(e)
        /\ UNCHANGED <<lce_commit_id, lce_read_only>>

\* C9: a call of check_each_sample with a sample that is not a LinkedSample raises
\* TypeError and leaves the creds encoder, the meta cache and every other field
\* of the engine as they were: no creds are recorded for any sample of the batch.
C9_CheckRecordsNothing ==
    [][(/\ lce_call'.op = "check_each_sample"
        /\ \E i \in 1..Len(lce_call'.samples) : ~lce_call'.samples[i].linked)
       => /\ lce_call'.outcome = "TypeError"
          /\ UNCHANGED <<lce_commit_id, lce_read_only, lce_meta_cache,
                         lce_creds_encoder, lce_creds_encoder_commit_id,
                         lce_encoder_id, lce_objects>>]_vars

\* a check that raised TypeError for a batch whose first sample is a LinkedSample
\* and whose second is not, on an engine whose creds encoder holds a sample
C9_Witness ==
    /\ lce_call.op = "check_each_sample"
    /\ lce_call.outcome = "TypeError"
    /\ Len(lce_call.samples) >= 2
    /\ lce_call.samples[1].linked
    /\ ~lce_call.samples[2].linked
    /\ lce_creds_encoder = "cached"
    /\ Len(RowsOf(Engine)) = 1

C14_FrameWindow ==
    (lce_call.op = "get_video_sample" /\ lce_call.outcome = "none") =>
       /\ lce_video.window = normalize_index(lce_video.index.sub, lce_video.nframes)
       /\ \A i \in 1..Len(lce_video.frames) :
             /\ lce_video.frames[i] \in lce_video.window.start..(lce_video.window.stop - 1)
             /\ (lce_video.frames[i] - lce_video.window.start) % lce_video.window.step = 0
       /\ lce_video.index.sub.kind = "slice" => Len(lce_video.shape) = Len(FrameShape) + 1
       /\ lce_video.index.sub.kind = "int" => Len(lce_video.shape) = Len(FrameShape)

(***************************************************************************)
(* Chunk ids and tile chunks (hub/util/chunks.py).  A chunk id is an       *)
(* unsigned integer of IdHexDigits hexadecimal digits; a string is the     *)
(* sequence of its characters, a bytes object the sequence of its bytes.   *)
(***************************************************************************)
ChunkIdValues == 0..(16 ^ IdHexDigits - 1)

HexDigits == <<"0", "1", "2", "3", "4", "5", "6", "7", "8", "9", "a", "b", "c", "d", "e", "f">>

\* the digits of hex(n), after the "0x"
RECURSIVE hex_digits(_)
hex_digits(n) ==
    IF n < 16 THEN <<HexDigits[n + 1]>>
    ELSE hex_digits(n \div 16) \o <<HexDigits[(n % 16) + 1]>>

\* hex(n)
hex(n) == <<"0", "x">> \o hex_digits(n)

\* chunk_name_from_id with the slice hex(id)[1:]
chunk_name_from_id_off_by_one(id) == SubSeq(hex(id), 2, Len(hex(id)))

\* chunk_name_from_id: hex(id)[2:]
chunk_name_from_id(id) == SubSeq(hex(id), 3, Len(hex(id)))

\* the "0" * 24 of chunk_uuid_from_id
UuidPadding == 24

\* UUID(hex=...) takes the 128 bits of a chunk id and its padding, digit by digit
UuidHexLength == IdHexDigits + UuidPadding

\* chunk_uuid_from_id: the UUID of the padded name; UUID raises ValueError for a
\* string of another length
chunk_uuid_from_id(id) ==
    LET padded_chunk_name == chunk_name_from_id(id) \o [i \in 1..UuidPadding |-> "0"]
    IN  IF Len(padded_chunk_name) = UuidHexLength
        THEN [err |-> "none", hex |-> padded_chunk_name]
        ELSE [err |-> "ValueError", hex |-> <<>>]

\* the tile shapes: tuples of dimensions of one digit
TileShapes == {<<>>, <<2>>, <<2, 3>>}

\* str(tile_shape) in utf-8: "()", "(2,)", "(2, 3)"
RECURSIVE StrOfItems(_)
StrOfItems(shape) ==
    IF Len(shape) = 1 THEN <<48 + shape[1]>>
    ELSE <<48 + Head(shape), 44, 32>> \o StrOfItems(Tail(shape))

StrOfTuple(shape) ==
    IF shape = <<>> THEN <<40, 41>>
    ELSE IF Len(shape) = 1 THEN <<40, 48 + shape[1], 44, 41>>
    ELSE <<40>> \o StrOfItems(shape) \o <<41>>

\* hexlify: two hexadecimal digits a byte
hexlify(bytes) ==
    Flatten([i \in 1..Len(bytes) |->
                <<HexDigits[(bytes[i] \div 16) + 1], HexDigits[(bytes[i] % 16) + 1]>>])

HexValue(d) == (CHOOSE i \in 1..16 : HexDigits[i] = d) - 1

\* unhexlify: a byte for two hexadecimal digits
unhexlify(digits) ==
    [i \in 1..(Len(digits) \div 2) |->
        16 * HexValue(digits[2 * i - 1]) + HexValue(digits[2 * i])]

\* the number that a sequence of hexadecimal digits writes
RECURSIVE int_of_digits(_)
int_of_digits(digits) ==
    IF digits = <<>> THEN 0
    ELSE 16 * int_of_digits(SubSeq(digits, 1, Len(digits) - 1)) + HexValue(digits[Len(digits)])

\* int(text, 16): the text is "0x" and one or more hexadecimal digits, anything
\* else raises ValueError
int16(text) ==
    IF /\ Len(text) > 2
       /\ SubSeq(text, 1, 2) = <<"0", "x">>
       /\ \A i \in 3..Len(text) : \E k \in 1..16 : HexDigits[k] = text[i]
    THEN [err |-> "none", value |-> int_of_digits(SubSeq(text, 3, Len(text)))]
    ELSE [err |-> "ValueError", value |-> 0]

\* chunk_id_from_name: int("0x" + name, 16)
chunk_id_from_name(name) == int16(<<"0", "x">> \o name)

NoResult == [name |-> <<>>, id |-> 0]

str_hexlify(payload) == hexlify(StrOfTuple(payload))

str_unhexlify(encoded_payload) == unhexlify(encoded_payload)

TileIdle ==
    /\ tile_call = [op |-> "idle", id |-> 0, tile_shape |-> <<>>]
    /\ tile_stdout = <<>>
    /\ tile_outcome = "none"
    /\ tile_result = NoResult

\* the arguments of a call that is about to be made
TileInit ==
    /\ tile_call \in [op : {"none"}, id : ChunkIdValues, tile_shape : TileShapes]
    /\ tile_stdout = <<>>
    /\ tile_outcome = "none"
    /\ tile_result = NoResult

\* Lines 24-40: derive_tile_chunk_id
DeriveTileChunkId ==
    LET root_chunk_id   == tile_call.id
        tile_shape      == tile_call.tile_shape
        root_chunk_uuid == chunk_uuid_from_id(root_chunk_id)
        hex_tile_shape  == str_hexlify(tile_shape)
        root_chunk_name == chunk_name_from_id(root_chunk_id)
    IN  /\ tile_call.op = "none"
        /\ tile_call' = [tile_call EXCEPT !.op = "derive_tile_chunk_id"]
        /\ IF root_chunk_uuid.err # "none"
           THEN /\ tile_outcome' = root_chunk_uuid.err
                /\ tile_stdout' = <<>>
           ELSE /\ tile_stdout' = << <<"test">>,
                                     <<hex_tile_shape, str_unhexlify(hex_tile_shape)>>,
                                     <<root_chunk_name>> >>
                /\ tile_outcome' = "SystemExit"
        /\ UNCHANGED tile_result

\* Lines 43-47: is_tile_chunk_id
IsTileChunkId ==
    /\ tile_call.op = "none"
    /\ tile_call' = [tile_call EXCEPT !.op = "is_tile_chunk_id"]
    /\ tile_stdout' = <<>>
    /\ tile_outcome' = "NotImplementedError"
    /\ UNCHANGED tile_result

\* Lines 50-52: derive_tile_shape
DeriveTileShape ==
    /\ tile_call.op = "none"
    /\ tile_call' = [tile_call EXCEPT !.op = "derive_tile_shape"]
    /\ tile_stdout' = <<>>
    /\ tile_outcome' = "NotImplementedError"
    /\ UNCHANGED tile_result

\* Lines 61-65: chunk_name_from_id
ChunkNameFromId ==
    /\ tile_call.op = "none"
    /\ tile_call' = [tile_call EXCEPT !.op = "chunk_name_from_id"]
    /\ tile_result' = [name |-> chunk_name_from_id(tile_call.id), id |-> 0]
    /\ tile_outcome' = "returned"
    /\ UNCHANGED tile_stdout

\* Lines 68-71: chunk_id_from_name, of the name that chunk_name_from_id returned
ChunkIdFromName ==
    /\ tile_call.op = "chunk_name_from_id"
    /\ tile_call' = [tile_call EXCEPT !.op = "chunk_id_from_name"]
    /\ tile_result' = [tile_result EXCEPT !.id = chunk_id_from_name(tile_result.name).value]
    /\ tile_outcome' = IF chunk_id_from_name(tile_result.name).err = "none"
                       THEN "returned" ELSE chunk_id_from_name(tile_result.name).err
    /\ UNCHANGED tile_stdout

\* C10: each of derive_tile_chunk_id, is_tile_chunk_id and derive_tile_shape
\* ends, for every input, in NotImplementedError: none of them returns a value,
\* ends the process or raises another error.
C10_NotImplemented ==
    tile_call.op \in {"derive_tile_chunk_id", "is_tile_chunk_id", "derive_tile_shape"}
        => tile_outcome = "NotImplementedError"

\* the characters of lowercase hexadecimal
LowercaseHex == {HexDigits[k] : k \in 1..16}

\* C12: for every chunk id of the id type, zero and ids of fewer hexadecimal
\* digits than the full width included, chunk_name_from_id returns a name of one
\* or more lowercase hexadecimal characters, without "0x" before it, and
\* chunk_id_from_name returns the id from that name and raises nothing.
C12_NameRoundTrip ==
    /\ tile_call.op \in {"chunk_name_from_id", "chunk_id_from_name"} =>
          /\ Len(tile_result.name) \in 1..IdHexDigits
          /\ \A i \in 1..Len(tile_result.name) : tile_result.name[i] \in LowercaseHex
    /\ tile_call.op = "chunk_id_from_name" =>
          /\ tile_outcome = "returned"
          /\ tile_result.id = tile_call.id

\* the id 10, of one digit where the id type has more, came back from its name "a"
C12_Witness ==
    /\ tile_call.op = "chunk_id_from_name"
    /\ tile_call.id = 10
    /\ tile_result = [name |-> <<"a">>, id |-> 10]

(***************************************************************************)
(* sample_from_index_entry (hub/core/chunk_engine/read.py).  The storage   *)
(* holds the chunks "a", "b" and "c"; every byte of a chunk tells the      *)
(* chunk and the place of the byte in it.                                  *)
(***************************************************************************)
UNCOMPRESSED == "uncompressed"

ChunkNames == {"a", "b", "c"}

TagOfChunk(name) == IF name = "a" THEN 10 ELSE IF name = "b" THEN 20 ELSE 30

\* the storages of the model: chunks of 0 to MaxChunkLen bytes
Storages ==
    {[name \in ChunkNames |-> ChunkBytes(TagOfChunk(name), len[name])] :
        len \in [ChunkNames -> 0..MaxChunkLen]}

\* the index entries of the model: up to MaxChunkNames chunks, each named once
IndexEntries ==
    [chunk_names : {ns \in SeqsUpTo(ChunkNames, MaxChunkNames) :
                       \A i, j \in 1..Len(ns) : i # j => ns[i] # ns[j]},
     start_byte : 0..MaxChunkLen,
     end_byte : 0..MaxChunkLen,
     shape_known : BOOLEAN,
     shape : {<<>>, <<2>>},
     compression : {UNCOMPRESSED, "png"}]

NoArray == [err |-> "none", dt |-> "none", shape |-> <<>>, vals |-> <<>>]

Raised(err) == [err |-> err, dt |-> "none", shape |-> <<>>, vals |-> <<>>]

\* Line 36: np.zeros(shape, dtype=dtype); a shape of None raises TypeError
zeros(shape_known, shape, dtype) ==
    IF shape_known
    THEN [err |-> "none", dt |-> dtype, shape |-> shape, vals |-> [i \in 1..Prod(shape) |-> 0]]
    ELSE Raised("TypeError")

\* the loop of lines 39-42 from the i-th name on, with last_b_len the length of
\* the buffer after the chunk was added
RECURSIVE read_chunks_length_after(_, _, _, _)
read_chunks_length_after(storage, chunk_names, i, st) ==
    IF i > Len(chunk_names) THEN st
    ELSE read_chunks_length_after(storage, chunk_names, i + 1,
            [buffer |-> st.buffer \o storage[chunk_names[i]],
             last_b_len |-> Len(st.buffer \o storage[chunk_names[i]]),
             reads |-> Append(st.reads, chunk_names[i])])

\* Lines 39-42: the loop over the chunk names, from the i-th name on
RECURSIVE read_chunks(_, _, _, _)
read_chunks(storage, chunk_names, i, st) ==
    IF i > Len(chunk_names) THEN st
    ELSE read_chunks(storage, chunk_names, i + 1,
            [buffer |-> st.buffer \o storage[chunk_names[i]],
             last_b_len |-> Len(st.buffer),
             reads |-> Append(st.reads, chunk_names[i])])

\* memoryview(buffer)[start:end], for start and end that are not negative
Slice(buffer, start, end) ==
    IF start >= Min(end, Len(buffer)) THEN <<>>
    ELSE SubSeq(buffer, start + 1, Min(end, Len(buffer)))

\* Lines 62-95: array_from_buffer; without a shape the array is returned flat
array_from_buffer(b, dtype, shape_known, shape) ==
    IF Len(b) % ItemSize(dtype) # 0 THEN Raised("ValueError")
    ELSE IF ~shape_known
    THEN [err |-> "none", dt |-> dtype, shape |-> <<Len(b) \div ItemSize(dtype)>>,
          vals |-> ValsOfBytes(b, dtype)]
    ELSE IF Len(b) # ItemSize(dtype) * Prod(shape) THEN Raised("ValueError")
    ELSE [err |-> "none", dt |-> dtype, shape |-> shape, vals |-> ValsOfBytes(b, dtype)]

\* hub.util.compress.decompress_array(buffer, compression): the dtype and the
\* elements come from the compressed bytes
decompress_array_of(b, compression) ==
    IF b = <<>> \/ Len(Tail(b)) % ItemSize(DtypeOfCode(b[1])) # 0 THEN Raised("ValueError")
    ELSE LET arr == decompress_array(b, <<>>, "none", compression)
         IN  [err |-> "none", dt |-> arr.dt, shape |-> <<Len(arr.vals)>>, vals |-> arr.vals]

\* Lines 31-59: sample_from_index_entry: what it read, the bytes it decoded and
\* what it returned or raised
sample_from_index_entry(storage, index_entry, dtype) ==
    IF Len(index_entry.chunk_names) <= 0
    THEN [reads |-> <<>>, mv |-> <<>>,
          result |-> zeros(index_entry.shape_known, index_entry.shape, dtype)]
    ELSE LET st == read_chunks(storage, index_entry.chunk_names, 1,
                               [buffer |-> <<>>, last_b_len |-> 0, reads |-> <<>>])
             start_byte == index_entry.start_byte
             end_byte   == st.last_b_len + index_entry.end_byte
             mv         == Slice(st.buffer, start_byte, end_byte)
         IN  [reads |-> st.reads, mv |-> mv,
              result |-> IF index_entry.compression = UNCOMPRESSED
                         THEN array_from_buffer(mv, dtype, index_entry.shape_known,
                                                index_entry.shape)
                         ELSE decompress_array_of(mv, index_entry.compression)]

RdIdle ==
    /\ rd_storage = <<>>
    /\ rd_entry = <<>>
    /\ rd_dtype = "none"
    /\ rd_pc = 0
    /\ rd_out = [reads |-> <<>>, mv |-> <<>>, result |-> NoArray]

\* the arguments of a call that is about to be made
RdInit ==
    /\ rd_storage \in Storages
    /\ rd_entry \in IndexEntries
    /\ rd_dtype \in Dtypes
    /\ rd_pc = 1
    /\ rd_out = [reads |-> <<>>, mv |-> <<>>, result |-> NoArray]

\* Lines 13-59: sample_from_index_entry
SampleFromIndexEntry ==
    /\ rd_pc = 1
    /\ rd_out' = sample_from_index_entry(rd_storage, rd_entry, rd_dtype)
    /\ rd_pc' = 2
    /\ UNCHANGED <<rd_storage, rd_entry, rd_dtype>>

\* the bytes of the first n chunks of the entry, one chunk after the other
RECURSIVE BytesOfChunks(_)
BytesOfChunks(n) ==
    IF n = 0 THEN <<>> ELSE BytesOfChunks(n - 1) \o rd_storage[rd_entry.chunk_names[n]]

\* the bytes at the places start+1 .. end of a sequence, as far as it reaches
PlacesOf(bytes, start, end) ==
    [k \in 1..Max(0, Min(end, Len(bytes)) - start) |-> bytes[start + k]]

\* C13: for an entry that names chunks, sample_from_index_entry reads the chunks
\* in the order of chunk_names and decodes exactly the bytes
\* [start_byte : (length of all chunks but the last) + end_byte] of the chunks'
\* bytes laid end to end, however many and however long the chunks; for an entry
\* that names no chunk it reads nothing from the storage and returns an array of
\* zeros of the recorded shape.
C13_SliceOfChunks ==
    rd_pc = 2 =>
       LET n == Len(rd_entry.chunk_names)
       IN  IF n = 0
           THEN /\ rd_out.reads = <<>>
                /\ rd_entry.shape_known =>
                      rd_out.result = [err |-> "none", dt |-> rd_dtype,
                                       shape |-> rd_entry.shape,
                                       vals |-> [i \in 1..Prod(rd_entry.shape) |-> 0]]
           ELSE /\ rd_out.reads = rd_entry.chunk_names
                /\ rd_out.mv = PlacesOf(BytesOfChunks(n), rd_entry.start_byte,
                                        Len(BytesOfChunks(n - 1)) + rd_entry.end_byte)
                /\ rd_out.result =
                      IF rd_entry.compression = UNCOMPRESSED
                      THEN array_from_buffer(rd_out.mv, rd_dtype, rd_entry.shape_known,
                                             rd_entry.shape)
                      ELSE decompress_array_of(rd_out.mv, rd_entry.compression)

\* a sample of two bytes was returned that begins in the second of three chunks of
\* different lengths and ends in the third
C13_Witness ==
    /\ rd_pc = 2
    /\ Len(rd_entry.chunk_names) = 3
    /\ Len(rd_storage[rd_entry.chunk_names[1]]) = 1
    /\ Len(rd_storage[rd_entry.chunk_names[2]]) = 2
    /\ rd_entry.start_byte = 2
    /\ rd_entry.end_byte = 1
    /\ rd_out.result.err = "none"
    /\ Len(rd_out.mv) = 2

(***************************************************************************)
(* The specifications, one a component: the other components are at rest.  *)
(***************************************************************************)
InitChunk ==
    /\ ChunkInit
    /\ CieIdle
    /\ TmIdle
    /\ McIdle
    /\ TsIdle
    /\ LceIdle
    /\ TileIdle
    /\ RdIdle

RestChunk == <<cieVars, tmVars, mcVars, tsVars, lceVars, tileVars, rdVars>>

NextChunk ==
    \/ NewSamples /\ UNCHANGED RestChunk
    \/ (\E c \in ChunkIds : ExtendIfHasSpace(c)) /\ UNCHANGED RestChunk
    \/ TakeRest /\ UNCHANGED RestChunk
    \/ (\E c \in ChunkIds : ReadSample(c)) /\ UNCHANGED RestChunk

SpecChunk == InitChunk /\ [][NextChunk]_vars

InitEncoders ==
    /\ CieInit
    /\ ChunkIdle
    /\ TmIdle
    /\ McIdle
    /\ TsIdle
    /\ LceIdle
    /\ TileIdle
    /\ RdIdle

RestEncoders == <<chunkVars, tmVars, mcVars, tsVars, lceVars, tileVars, rdVars>>

NextEncoders ==
    \/ MergeEncoder /\ UNCHANGED RestEncoders
    \/ StoreEncoder /\ UNCHANGED RestEncoders

SpecEncoders == InitEncoders /\ [][NextEncoders]_vars

InitMetas ==
    /\ TmInit
    /\ ChunkIdle
    /\ CieIdle
    /\ McIdle
    /\ TsIdle
    /\ LceIdle
    /\ TileIdle
    /\ RdIdle

RestMetas == <<chunkVars, cieVars, mcVars, tsVars, lceVars, tileVars, rdVars>>

NextMetas ==
    \/ MergeMeta /\ UNCHANGED RestMetas
    \/ StoreMeta /\ UNCHANGED RestMetas

SpecMetas == InitMetas /\ [][NextMetas]_vars

InitMergeChunks ==
    /\ McInit
    /\ ChunkIdle
    /\ CieIdle
    /\ TmIdle
    /\ TsIdle
    /\ LceIdle
    /\ TileIdle
    /\ RdIdle

RestMergeChunks == <<chunkVars, cieVars, tmVars, tsVars, lceVars, tileVars, rdVars>>

NextMergeChunks ==
    \/ MergeChunks /\ UNCHANGED RestMergeChunks

SpecMergeChunks == InitMergeChunks /\ [][NextMergeChunks]_vars

InitTransform ==
    /\ TsInit
    /\ ChunkIdle
    /\ CieIdle
    /\ TmIdle
    /\ McIdle
    /\ LceIdle
    /\ TileIdle
    /\ RdIdle

RestTransform == <<chunkVars, cieVars, tmVars, mcVars, lceVars, tileVars, rdVars>>

NextTransform ==
    \/ ApplyFunction /\ UNCHANGED RestTransform
    \/ ReturnResult /\ UNCHANGED RestTransform

SpecTransform == InitTransform /\ [][NextTransform]_vars

InitLinked ==
    /\ LceInit
    /\ ChunkIdle
    /\ CieIdle
    /\ TmIdle
    /\ McIdle
    /\ TsIdle
    /\ TileIdle
    /\ RdIdle

RestLinked == <<chunkVars, cieVars, tmVars, mcVars, tsVars, tileVars, rdVars>>

NextLinked ==
    \/ Checkout /\ UNCHANGED RestLinked
    \/ ReadCredsEncoder /\ UNCHANGED RestLinked
    \/ CheckEachSample /\ UNCHANGED RestLinked
    \/ RegisterNewCreds /\ UNCHANGED RestLinked
    \/ UpdateCreds /\ UNCHANGED RestLinked

SpecLinked == InitLinked /\ [][NextLinked]_vars

InitVideo ==
    /\ LceInit
    /\ ChunkIdle
    /\ CieIdle
    /\ TmIdle
    /\ McIdle
    /\ TsIdle
    /\ TileIdle
    /\ RdIdle

RestVideo == <<chunkVars, cieVars, tmVars, mcVars, tsVars, tileVars, rdVars>>

NextVideo ==
    \/ Checkout /\ UNCHANGED RestVideo
    \/ RegisterNewCreds /\ UNCHANGED RestVideo
    \/ GetVideoSample /\ UNCHANGED RestVideo

SpecVideo == InitVideo /\ [][NextVideo]_vars

InitTiles ==
    /\ TileInit
    /\ ChunkIdle
    /\ CieIdle
    /\ TmIdle
    /\ McIdle
    /\ TsIdle
    /\ LceIdle
    /\ RdIdle

RestTiles == <<chunkVars, cieVars, tmVars, mcVars, tsVars, lceVars, rdVars>>

NextTiles ==
    \/ DeriveTileChunkId /\ UNCHANGED RestTiles
    \/ IsTileChunkId /\ UNCHANGED RestTiles
    \/ DeriveTileShape /\ UNCHANGED RestTiles
    \/ ChunkNameFromId /\ UNCHANGED RestTiles
    \/ ChunkIdFromName /\ UNCHANGED RestTiles

SpecTiles == InitTiles /\ [][NextTiles]_vars

InitRead ==
    /\ RdInit
    /\ ChunkIdle
    /\ CieIdle
    /\ TmIdle
    /\ McIdle
    /\ TsIdle
    /\ LceIdle
    /\ TileIdle

RestRead == <<chunkVars, cieVars, tmVars, mcVars, tsVars, lceVars, tileVars>>

NextRead ==
    \/ SampleFromIndexEntry /\ UNCHANGED RestRead

SpecRead == InitRead /\ [][NextRead]_vars
====
